---- MODULE Spec2Model ----
(***************************************************************************)
(* Model of the check-in ledger of futaba-bot (src/src/eueoeo.rs):         *)
(* the users / history tables, Handler::incr_counter statement by          *)
(* statement (each sqlx query is one await point and one autocommit        *)
(* statement on the pool), the live message handler, the backfill loop     *)
(* retrieve_missing_messages / process_message_history, and process        *)
(* crash / restart.                                                        *)
(***************************************************************************)
EXTENDS Integers, Sequences, FiniteSets, Bags, TLC

\* ---------------------------------------------------------------- bounds
MaxMsg == 3
MaxDay == 3
NumActors == 2
MaxFaults == 1
MaxCalls == 2
MaxRuns == 2

\* ------------------------------------------------------ program constants
\* MESSAGES_LIMIT is 100 in the source; the page bound is scaled down so
\* that a full page and a short page both occur with MaxMsg messages.
MESSAGES_LIMIT == 2
\* Handler::init_message_id, the operator-supplied seed
InitMessageId == 0
EUEOEO == "eueoeo"

Actors == 1..NumActors
Days == 1..MaxDay
Names == {"nick"}
Contents == {EUEOEO, "other"}

Max(a, b) == IF a >= b THEN a ELSE b

\* ------------------------------------------------------------- calendar
\* FixedOffset::east(9 * 3600): the calendar date of a UTC timestamp in the
\* reference zone, counted in days from the model's origin.
DateAt(ts, offset) == (ts + offset) \div 86400
DateOf(ts) == DateAt(ts, 9 * 3600)
\* date.and_hms(0, 0, 0).timestamp()
MidnightTs(date) == date * 86400 - 9 * 3600
\* date.pred()
Pred(date) == date - 1
\* The model's calendar: day 1 is March 31, day 2 is April 1, day 3 April 2 ...
Month(date) == IF date <= 1 THEN 3 ELSE 4
DayOfMonth(date) == IF date <= 1 THEN 30 + date ELSE date - 1
\* offset.ymd(year, 1, 1): day 1 is March 31 of the model's year 0, so
\* January 1 of year 1 is day 277; year 0 has 365 days and year 1 has 366
NewYear == 277
Year(date) ==
    IF date < NewYear THEN 0 ELSE IF date < NewYear + 366 THEN 1 ELSE 2
YearStart(year) ==
    IF year <= 0 THEN NewYear - 365
    ELSE IF year = 1 THEN NewYear ELSE NewYear + 366
\* the days from December 31 of year 0 on
NewYearDays == (NewYear - 1)..(NewYear + MaxDay)
\* creation time of message id when it is created on the given day: the time
\* of day grows with the id, so ids and timestamps ascend together
TimeOfDay(id) == ((id - 1) * 86399) \div MaxMsg
Timestamp(day, id) == MidnightTs(day) + TimeOfDay(id)

\* ---------------------------------------------------------------- codec
\* into_snowflakes multiplies the second by 1000 and shifts the millisecond
\* left by 22 bits; both factors are scaled down so that ids stay small. A
\* snowflake is (millisecond - epoch) * SnowflakeUnit + low bits.
MsPerSec == 2
SnowflakeUnit == 2
\* 1420070400000 ms in the source: a whole second before every date used
DiscordEpoch == MsPerSec * 86400 * (NewYear - 400)

\* IntoSnowflakes for DateTime<TZ>
IntoSnowflakesSeconds(ts) == (ts - DiscordEpoch) * SnowflakeUnit
into_snowflakes(ts) == (ts * MsPerSec - DiscordEpoch) * SnowflakeUnit

\* IntoSnowflakes for Duration, of a number of days
DaysIntoSnowflakes(n) == (n * 86400 * MsPerSec) * SnowflakeUnit

\* from_snowflakes: the UTC second of a snowflake
from_snowflakes(snowflakes) ==
    ((snowflakes \div SnowflakeUnit) + DiscordEpoch) \div MsPerSec

\* the id Discord gives the model's message id, created at second ts: the
\* millisecond within the second and the low bits vary with the message
Snowflake(ts, id) ==
    ((ts * MsPerSec + ((id - 1) % MsPerSec)) - DiscordEpoch) * SnowflakeUnit
        + ((id - 1) % SnowflakeUnit)

\* -------------------------------------------------------------- messages
MessageKinds == [bot : BOOLEAN, edited : BOOLEAN, content : Contents]
HumanKinds == {k \in MessageKinds : ~k.bot /\ ~k.edited}
TokenKinds == {k \in HumanKinds : k.content = EUEOEO}
\* a message event carries a new message: it has no edit yet
NewKinds == {k \in MessageKinds : ~k.edited}

\* FutabaMessage::check_message
CheckMessageTokenOnly(m) ==
    IF m.bot \/ m.edited THEN FALSE ELSE m.content = EUEOEO
check_message(m) ==
    IF m.bot \/ m.edited
    THEN FALSE
    ELSE LET date == DateOf(m.timestamp)
         IN  IF Month(date) = 4 /\ DayOfMonth(date) = 1
             THEN TRUE
             ELSE m.content = EUEOEO

\* ---------------------------------------------------------------- tables
\* row of INSERT INTO users (user_id, name): the other columns take the
\* schema defaults
DefaultUser(name) ==
    [name |-> name, count |-> 0, longest_streaks |-> 0,
     current_streaks |-> 0, last_date |-> 0]

\* the values of INSERT INTO history (message_id, user_id, date)
HistoryRow(m) ==
    [message_id |-> m.id, user_id |-> m.author,
     date |-> MidnightTs(DateOf(m.timestamp))]

HasRow(h, id) == \E r \in BagToSet(h) : r.message_id = id

\* INSERT INTO history: a constraint violation (duplicate message_id) gives
\* affected = false, otherwise the row is stored
InsertHistoryAlways(h, row) ==
    [ok |-> TRUE, history |-> h (+) SetToBag({row})]
InsertHistory(h, row) ==
    IF HasRow(h, row.message_id)
    THEN [ok |-> FALSE, history |-> h]
    ELSE [ok |-> TRUE, history |-> h (+) SetToBag({row})]

\* the branch on data.last_date == prev_date
StreaksNoReset(data, prev_date) ==
    LET current_streaks == data.current_streaks + 1
    IN  [longest |-> Max(data.longest_streaks, current_streaks),
         current |-> current_streaks]
StreaksNoMax(data, prev_date) ==
    IF data.last_date = prev_date
    THEN [longest |-> data.longest_streaks,
          current |-> data.current_streaks + 1]
    ELSE [longest |-> data.longest_streaks, current |-> 1]
StreaksSameDayKept(data, prev_date) ==
    IF data.last_date = prev_date
    THEN LET current_streaks == data.current_streaks + 1
         IN  [longest |-> Max(data.longest_streaks, current_streaks),
              current |-> current_streaks]
    ELSE IF data.last_date = prev_date + 86400
         THEN [longest |-> data.longest_streaks,
               current |-> data.current_streaks]
         ELSE [longest |-> data.longest_streaks, current |-> 1]
Streaks(data, prev_date) ==
    IF data.last_date = prev_date
    THEN LET current_streaks == data.current_streaks + 1
         IN  [longest |-> Max(data.longest_streaks, current_streaks),
              current |-> current_streaks]
    ELSE [longest |-> data.longest_streaks, current |-> 1]

\* UPDATE users SET count = count + 1, longest_streaks = ?, ... WHERE user_id = ?
UpdateUser(row, s, message_date) ==
    [row EXCEPT !.count = @ + 1,
                !.longest_streaks = s.longest,
                !.current_streaks = s.current,
                !.last_date = message_date]

\* the values incr_counter binds to its UPDATE from the row it selected
NewStreaks(data, m) == Streaks(data, MidnightTs(Pred(DateOf(m.timestamp))))


\* ----------------------------------------------------------------- state
VARIABLES
    users,      \* the users table: user_id -> row, for the registered actors
    history,    \* the history table: a bag of rows
    channel,    \* the messages now in the monitored channel (event source)
    lastId,     \* the channel's last_message_id (0: no message yet)
    lastDay,    \* the day on which the newest message was created
    up,         \* "init" before the first start, "up", or "down" after a crash
    live,       \* message id -> the running message handler task
    bf,         \* run slot -> the retrieve_missing_messages task in it
    faults,     \* number of crashes and storage errors so far
    results,    \* message id -> outcomes of the incr_counter calls that returned
    applied,    \* message id -> number of times its UPDATE users ran
    lastAccept, \* the last UPDATE users: the row before and after it
    init_message_id,  \* Handler::init_message_id of the running process
    reply       \* the interaction response being sent, or NoReply

vars == <<users, history, channel, lastId, lastDay, up, live, bf, faults,
          results, applied, lastAccept, init_message_id, reply>>

Ids == 1..MaxMsg
Runs == 1..MaxRuns
NoAccept == [id |-> 0]
EmptyFn == [x \in {} |-> 0]
IdleBf == [pc |-> "idle"]
NoReply == [kind |-> "none"]

Registered(a) == a \in DOMAIN users

\* removes key k from function f
Without(f, k) == [x \in (DOMAIN f) \ {k} |-> f[x]]

\* the users table after a process has synced the members in reg
InitialUsers(reg) == [a \in reg |-> DefaultUser("nick")]

Init ==
    /\ \E n \in 0..NumActors : users = InitialUsers(1..n)
    /\ history = EmptyBag
    /\ channel = {}
    /\ lastId = 0
    /\ lastDay = 1
    /\ up = "init"
    /\ live = EmptyFn
    /\ bf = [r \in Runs |-> IdleBf]
    /\ faults = 0
    /\ results = [id \in Ids |-> <<>>]
    /\ applied = [id \in Ids |-> 0]
    /\ lastAccept = NoAccept
    /\ init_message_id = InitMessageId
    /\ reply = NoReply

\* outcome bookkeeping of a returning incr_counter call
Returned(id, out, via, known) ==
    [results EXCEPT ![id] = Append(@, [out |-> out, via |-> via, known |-> known])]

Accepted(id, author, date, before, after) ==
    [id |-> id, author |-> author, date |-> date, before |-> before, after |-> after]

\* ------------------------------------------------------------ environment
\* a message is created in the channel; a running bot gets the message event
\* and spawns the handler task
PostBy(authors, days, kinds) ==
    /\ lastId < MaxMsg
    /\ \E author \in authors, day \in days, k \in kinds :
        /\ day >= lastDay
        /\ LET m == [id |-> lastId + 1, author |-> author,
                     timestamp |-> Timestamp(day, lastId + 1),
                     bot |-> k.bot, edited |-> k.edited, content |-> k.content]
           IN  /\ channel' = channel \cup {m}
               /\ lastId' = m.id
               /\ lastDay' = day
               /\ live' = IF up = "up"
                          THEN (m.id :> [m |-> m, pc |-> "message"]) @@ live
                          ELSE live
    /\ UNCHANGED <<users, history, up, bf, faults, results, applied, lastAccept,
                   init_message_id, reply>>

PostOn(days, kinds) == PostBy(Actors, days, kinds)

Post(kinds) == PostOn(Days, kinds)

\* SubApplication::update_member: INSERT INTO users ... ON CONFLICT DO UPDATE SET name
UpdateMemberReplace(u, a, name) == (a :> DefaultUser(name)) @@ u
update_member(u, a, name) ==
    IF a \in DOMAIN u
    THEN [u EXCEPT ![a].name = name]
    ELSE (a :> DefaultUser(name)) @@ u

UpdateMemberTo(names) ==
    /\ \E a \in Actors, name \in names : users' = update_member(users, a, name)
    /\ UNCHANGED <<history, channel, lastId, lastDay, up, live, bf, faults,
                   results, applied, lastAccept,
                   init_message_id, reply>>

UpdateMember == UpdateMemberTo(Names)

\* member.nick, or member.user.name when there is no nickname
MemberNames == {"nick", "user"}

\* a member event with either name
Rename == UpdateMemberTo(MemberNames)


\* ------------------------------------------- live ingestion (message handler)
\* SubApplication::message on a message that passes check_message runs
\* incr_counter; its first statement is INSERT INTO history, and a duplicate
\* key returns Ok(false) at once.
LiveInsert(id) ==
    /\ id \in DOMAIN live
    /\ live[id].pc = "message"
    /\ check_message(live[id].m)
    /\ LET m == live[id].m
           r == InsertHistory(history, HistoryRow(m))
       IN  /\ history' = r.history
           /\ IF r.ok
              THEN /\ live' = [live EXCEPT ![id] =
                                 [m |-> m, pc |-> "select",
                                  known |-> Registered(m.author)]]
                   /\ UNCHANGED results
              ELSE /\ live' = Without(live, id)
                   /\ results' = Returned(id, "Duplicate", "live",
                                          Registered(m.author))
    /\ UNCHANGED <<users, channel, lastId, lastDay, up, bf, faults, applied,
                   lastAccept,
                   init_message_id, reply>>

\* incr_counter, second statement: SELECT ... FROM users WHERE user_id = ?.
\* No row: the call returns Ok(false) ("unknown user").
LiveSelect(id) ==
    /\ id \in DOMAIN live
    /\ live[id].pc = "select"
    /\ LET m == live[id].m
       IN  IF Registered(m.author)
           THEN /\ live' = [live EXCEPT ![id] =
                              [m |-> m, pc |-> "update", known |-> live[id].known,
                               data |-> users[m.author]]]
                /\ UNCHANGED results
           ELSE /\ live' = Without(live, id)
                /\ results' = Returned(id, "RejectedUnknownActor", "live",
                                       live[id].known)
    /\ UNCHANGED <<users, history, channel, lastId, lastDay, up, bf, faults,
                   applied, lastAccept,
                   init_message_id, reply>>

\* incr_counter, third statement: UPDATE users, then Ok(true)
LiveUpdate(id) ==
    /\ id \in DOMAIN live
    /\ live[id].pc = "update"
    /\ LET m == live[id].m
           message_date == MidnightTs(DateOf(m.timestamp))
           row == UpdateUser(users[m.author], NewStreaks(live[id].data, m),
                             message_date)
       IN  /\ users' = [users EXCEPT ![m.author] = row]
           /\ applied' = [applied EXCEPT ![id] = @ + 1]
           /\ lastAccept' = Accepted(id, m.author, message_date,
                                     users[m.author], row)
           /\ results' = Returned(id, "Accepted", "live", live[id].known)
    /\ live' = Without(live, id)
    /\ UNCHANGED <<history, channel, lastId, lastDay, up, bf, faults,
                   init_message_id, reply>>

\* SubApplication::message on a message that fails check_message: the
\* handler goes on to delete it
LiveReject(id) ==
    /\ id \in DOMAIN live
    /\ live[id].pc = "message"
    /\ ~check_message(live[id].m)
    /\ live' = [live EXCEPT ![id] = [m |-> live[id].m, pc |-> "delete"]]
    /\ UNCHANGED <<users, history, channel, lastId, lastDay, up, bf, faults,
                   results, applied, lastAccept, init_message_id, reply>>

\* message.delete(context): the message leaves the channel
LiveDelete(id) ==
    /\ id \in DOMAIN live
    /\ live[id].pc = "delete"
    /\ channel' = channel \ {live[id].m}
    /\ live' = Without(live, id)
    /\ UNCHANGED <<users, history, lastId, lastDay, up, bf, faults, results,
                   applied, lastAccept, init_message_id, reply>>

\* ------------------------------------------- backfill (retrieve_missing_messages)
SetMax(S) == CHOOSE x \in S : \A y \in S : y <= x

\* messages.sort_by_cached_key(|i| i.id)
RECURSIVE SortById(_)
SortById(S) ==
    IF S = {}
    THEN <<>>
    ELSE LET m == CHOOSE x \in S : \A y \in S : x.id <= y.id
         IN  <<m>> \o SortById(S \ {m})

\* the orders in which the elements of S can be returned
Perms(S) ==
    {p \in [1..Cardinality(S) -> S] :
        \A i, j \in 1..Cardinality(S) : p[i] = p[j] => i = j}

\* messages.sort_by_cached_key(|i| i.id)
SortNone(messages) == messages
sort_by_cached_key(messages) ==
    SortById({messages[k] : k \in 1..Len(messages)})

\* channel.messages(|req| req.after(prev_message_id).limit(MESSAGES_LIMIT)):
\* the source returns the messages that follow the cursor, at most the limit
Page(ch, after) ==
    {m \in ch : /\ m.id > after
                /\ Cardinality({x \in ch : x.id > after /\ x.id < m.id})
                     < MESSAGES_LIMIT}

\* SELECT message_id FROM history ORDER BY message_id DESC LIMIT 1, or
\* init_message_id when the table is empty
StartCursor(h, seed) ==
    IF BagToSet(h) = {}
    THEN seed
    ELSE SetMax({r.message_id : r \in BagToSet(h)})

\* entry of retrieve_missing_messages: channel.last_message_id read from the
\* cache; None ends the run at once
BeginRun ==
    IF lastId = 0
    THEN [pc |-> "done"]
    ELSE [pc |-> "cursor", last_message_id |-> lastId]

\* run r of retrieve_missing_messages is between its entry and its end
Paging(r) == bf[r].pc \in {"cursor", "loop", "page", "select", "update"}

\* the process starts with Handler { init_message_id: seed, .. };
\* cache_ready runs retrieve_missing_messages
StartWith(seed) ==
    /\ up \in {"init", "down"}
    /\ up' = "up"
    /\ bf' = [r \in Runs |-> IF r = 1 THEN BeginRun ELSE IdleBf]
    /\ init_message_id' = seed
    /\ UNCHANGED <<users, history, channel, lastId, lastDay, live, faults,
                   results, applied, lastAccept, reply>>

Start == StartWith(InitMessageId)

\* the gateway session resumes after the previous run has ended
Resume ==
    /\ up = "up"
    /\ bf[1].pc \in {"done", "dead"}
    /\ \A r \in Runs : ~Paging(r)
    /\ bf' = [bf EXCEPT ![1] = BeginRun]
    /\ UNCHANGED <<users, history, channel, lastId, lastDay, up, live, faults,
                   results, applied, lastAccept,
                   init_message_id, reply>>

\* the gateway session resumes while an earlier run is still in
\* retrieve_missing_messages: the handler task of the new event runs the
\* function again, next to the earlier task
ResumeWhilePaging ==
    /\ up = "up"
    /\ \E r \in Runs :
        /\ ~Paging(r)
        /\ r > 1
        /\ \A q \in 1..(r - 1) : Paging(q)
        /\ bf' = [bf EXCEPT ![r] = BeginRun]
    /\ UNCHANGED <<users, history, channel, lastId, lastDay, up, live, faults,
                   results, applied, lastAccept,
                   init_message_id, reply>>

BfCursor(r) ==
    /\ bf[r].pc = "cursor"
    /\ bf' = [bf EXCEPT ![r] =
                [pc |-> "loop", last_message_id |-> bf[r].last_message_id,
                 prev_message_id |-> StartCursor(history, init_message_id)]]
    /\ UNCHANGED <<users, history, channel, lastId, lastDay, up, live, faults,
                   results, applied, lastAccept,
                   init_message_id, reply>>

\* while prev_message_id < last_message_id: fetch the next page, which the
\* source returns in any order, and sort it
BfFetch(r) ==
    /\ bf[r].pc = "loop"
    /\ bf[r].prev_message_id < bf[r].last_message_id
    /\ \E messages \in Perms(Page(channel, bf[r].prev_message_id)) :
        bf' = [bf EXCEPT ![r] =
                [pc |-> "page", last_message_id |-> bf[r].last_message_id,
                 prev_message_id |-> bf[r].prev_message_id,
                 messages |-> sort_by_cached_key(messages),
                 i |-> 1, most_new_id |-> 0]]
    /\ UNCHANGED <<users, history, channel, lastId, lastDay, up, live, faults,
                   results, applied, lastAccept,
                   init_message_id, reply>>

\* the while condition fails: the run ends
BfExit(r) ==
    /\ bf[r].pc = "loop"
    /\ ~(bf[r].prev_message_id < bf[r].last_message_id)
    /\ bf' = [bf EXCEPT ![r] = [pc |-> "done"]]
    /\ UNCHANGED <<users, history, channel, lastId, lastDay, up, live, faults,
                   results, applied, lastAccept,
                   init_message_id, reply>>

\* positions of the page, from i on, whose message passes check_message
ValidFrom(b) == {k \in b.i..Len(b.messages) : check_message(b.messages[k])}

\* most_new_id after the filter_map closure has seen positions b.i..to
MostNewIdStays(b, to) == b.prev_message_id
MostNewIdAccepted(b, to) ==
    SetMax({b.most_new_id} \cup
           {b.messages[k].id : k \in {l \in b.i..to : check_message(b.messages[l])}})
MostNewId(b, to) ==
    SetMax({b.most_new_id} \cup {b.messages[k].id : k \in b.i..to})

\* process_message_history: the iterator advances to the next message that
\* passes check_message and incr_counter runs its INSERT
BfInsert(r) ==
    /\ bf[r].pc = "page"
    /\ ValidFrom(bf[r]) # {}
    /\ LET j == CHOOSE k \in ValidFrom(bf[r]) : \A l \in ValidFrom(bf[r]) : k <= l
           m == bf[r].messages[j]
           ins == InsertHistory(history, HistoryRow(m))
           b == [bf[r] EXCEPT !.most_new_id = MostNewId(bf[r], j)]
       IN  /\ history' = ins.history
           /\ IF ins.ok
              THEN /\ bf' = [bf EXCEPT ![r] =
                                [b EXCEPT !.pc = "select", !.i = j] @@
                                [known |-> Registered(m.author)]]
                   /\ UNCHANGED results
              ELSE /\ bf' = [bf EXCEPT ![r] = [b EXCEPT !.i = j + 1]]
                   /\ results' = Returned(m.id, "Duplicate", "backfill",
                                          Registered(m.author))
    /\ UNCHANGED <<users, channel, lastId, lastDay, up, live, faults, applied,
                   lastAccept,
                   init_message_id, reply>>

\* the record of the paging loop between two incr_counter calls
PageStateAbort(b, i) == [pc |-> "done"]
PageState(b, i) ==
    [pc |-> "page", last_message_id |-> b.last_message_id,
     prev_message_id |-> b.prev_message_id, messages |-> b.messages,
     i |-> i, most_new_id |-> b.most_new_id]

BfSelect(r) ==
    /\ bf[r].pc = "select"
    /\ LET m == bf[r].messages[bf[r].i]
       IN  IF Registered(m.author)
           THEN /\ bf' = [bf EXCEPT ![r] =
                             [bf[r] EXCEPT !.pc = "update"] @@
                             [data |-> users[m.author]]]
                /\ UNCHANGED results
           ELSE /\ bf' = [bf EXCEPT ![r] = PageState(bf[r], bf[r].i + 1)]
                /\ results' = Returned(m.id, "RejectedUnknownActor", "backfill",
                                       bf[r].known)
    /\ UNCHANGED <<users, history, channel, lastId, lastDay, up, live, faults,
                   applied, lastAccept,
                   init_message_id, reply>>

BfUpdate(r) ==
    /\ bf[r].pc = "update"
    /\ LET m == bf[r].messages[bf[r].i]
           message_date == MidnightTs(DateOf(m.timestamp))
           row == UpdateUser(users[m.author], NewStreaks(bf[r].data, m),
                             message_date)
       IN  /\ users' = [users EXCEPT ![m.author] = row]
           /\ applied' = [applied EXCEPT ![m.id] = @ + 1]
           /\ lastAccept' = Accepted(m.id, m.author, message_date,
                                     users[m.author], row)
           /\ results' = Returned(m.id, "Accepted", "backfill", bf[r].known)
    /\ bf' = [bf EXCEPT ![r] = PageState(bf[r], bf[r].i + 1)]
    /\ UNCHANGED <<history, channel, lastId, lastDay, up, live, faults,
                   init_message_id, reply>>

\* the value process_message_history returns for a page: None for a short
\* page, Some(most_new_id) for a full one
PageResultFullStops(messages, most_new_id) ==
    IF Len(messages) <= MESSAGES_LIMIT THEN 0 ELSE most_new_id
PageResultNonEmpty(messages, most_new_id) ==
    IF Len(messages) = 0 THEN 0 ELSE most_new_id
PageResult(messages, most_new_id) ==
    IF Len(messages) < MESSAGES_LIMIT THEN 0 ELSE most_new_id

\* no further message passes check_message: the page is done; a short page
\* breaks the loop, a full page moves the cursor to most_new_id
BfPageEnd(r) ==
    /\ bf[r].pc = "page"
    /\ ValidFrom(bf[r]) = {}
    /\ LET most_new_id == MostNewId(bf[r], Len(bf[r].messages))
       IN  IF PageResult(bf[r].messages, most_new_id) = 0
           THEN bf' = [bf EXCEPT ![r] = [pc |-> "done"]]
           ELSE bf' = [bf EXCEPT ![r] =
                         [pc |-> "loop",
                          last_message_id |-> bf[r].last_message_id,
                          prev_message_id |->
                              PageResult(bf[r].messages, most_new_id)]]
    /\ UNCHANGED <<users, history, channel, lastId, lastDay, up, live, faults,
                   results, applied, lastAccept,
                   init_message_id, reply>>

\* a statement of incr_counter fails with a storage error inside the page:
\* process_message_history returns Err and expect() panics the run
BfFail(r) ==
    /\ faults < MaxFaults
    /\ \/ bf[r].pc \in {"select", "update"}
       \/ bf[r].pc = "page" /\ ValidFrom(bf[r]) # {}
    /\ faults' = faults + 1
    /\ bf' = [bf EXCEPT ![r] = [pc |-> "dead"]]
    /\ UNCHANGED <<users, history, channel, lastId, lastDay, up, live, results,
                   applied, lastAccept,
                   init_message_id, reply>>

\* the process dies: every task is lost, the database file stays
Crash ==
    /\ faults < MaxFaults
    /\ up = "up"
    /\ faults' = faults + 1
    /\ up' = "down"
    /\ live' = EmptyFn
    /\ bf' = [r \in Runs |-> IdleBf]
    /\ UNCHANGED <<users, history, channel, lastId, lastDay, results, applied,
                   lastAccept,
                   init_message_id, reply>>

\* ------------------------------------------------- membership sync (main.rs)
\* guild.members(&context.http, None, user_id) returns at most 1000 members;
\* the bound is scaled down so that the guild holds more than one page
MEMBERS_LIMIT == 1

\* the members of the guild and the name update_members takes for each
\* (member.nick, or member.user.name)
GuildMembers == Actors
MemberName(a) == "user"

\* guild.members(.., None, after): the members that follow the user id after,
\* at most the limit; after = 0 stands for None
MembersPage(after) ==
    {a \in GuildMembers :
        /\ a > after
        /\ Cardinality({x \in GuildMembers : x > after /\ x < a})
             < MEMBERS_LIMIT}

\* update_members: largest_user_id of a member list, 0 for None
LargestUserIdNone(members) == 0
LargestUserId(members) ==
    IF members = <<>> THEN 0
    ELSE SetMax({members[k] : k \in 1..Len(members)})

\* the process of main.rs starts; cache_ready begins with the membership
\* loop, user_id = None
StartMain ==
    /\ up \in {"init", "down"}
    /\ up' = "up"
    /\ bf' = [r \in Runs |->
                IF r = 1 THEN [pc |-> "members", user_id |-> 0] ELSE IdleBf]
    /\ init_message_id' = InitMessageId
    /\ UNCHANGED <<users, history, channel, lastId, lastDay, live, faults,
                   results, applied, lastAccept, reply>>

\* loop { let members = guild.members(..).await ...: the next page of members
SyncFetch(r) ==
    /\ bf[r].pc = "members"
    /\ \E members \in Perms(MembersPage(bf[r].user_id)) :
        bf' = [bf EXCEPT ![r] =
                 [pc |-> "upsert", user_id |-> bf[r].user_id,
                  members |-> members, i |-> 1]]
    /\ UNCHANGED <<users, history, channel, lastId, lastDay, up, live, faults,
                   results, applied, lastAccept, init_message_id, reply>>

\* update_members: the INSERT ... ON CONFLICT statement of the next member
SyncUpsert(r) ==
    /\ bf[r].pc = "upsert"
    /\ bf[r].i <= Len(bf[r].members)
    /\ users' = update_member(users, bf[r].members[bf[r].i],
                              MemberName(bf[r].members[bf[r].i]))
    /\ bf' = [bf EXCEPT ![r].i = @ + 1]
    /\ UNCHANGED <<history, channel, lastId, lastDay, up, live, faults,
                   results, applied, lastAccept, init_message_id, reply>>

\* update_members returns largest_user_id: None breaks the loop and
\* retrieve_missing_messages is entered, otherwise the next page is asked
\* for after that id
SyncPageEnd(r) ==
    /\ bf[r].pc = "upsert"
    /\ bf[r].i > Len(bf[r].members)
    /\ bf' = [bf EXCEPT ![r] =
                IF LargestUserId(bf[r].members) = 0
                THEN BeginRun
                ELSE [pc |-> "members",
                      user_id |-> LargestUserId(bf[r].members)]]
    /\ UNCHANGED <<users, history, channel, lastId, lastDay, up, live, faults,
                   results, applied, lastAccept, init_message_id, reply>>

\* ---------------------------------------------------------------- queries
\* MissingDays::DETAIL_LIMIT_COUNT
DETAIL_LIMIT_COUNT == 10

\* Option<i32>
None == [some |-> FALSE]
Some(x) == [some |-> TRUE, value |-> x]

\* the history.message_id of a row as Discord made it
RowSnowflake(r) == Snowflake(r.date + TimeOfDay(r.message_id), r.message_id)

\* get_yearly_stats_range; now is chrono::Local::now(): the instant and the
\* host's UTC offset
get_yearly_stats_range(year_arg, now) ==
    LET current_year == Year(DateAt(now.ts, now.local))
        year == IF year_arg.some THEN year_arg.value ELSE current_year
        begin_date == MidnightTs(YearStart(year))
        end_date == IF year # current_year
                    THEN MidnightTs(YearStart(year + 1))
                    ELSE MidnightTs(DateOf(now.ts)) + 86400
    IN  [year |-> year,
         days |-> (end_date - begin_date) \div 86400,
         begin |-> into_snowflakes(begin_date),
         end |-> into_snowflakes(end_date)]

\* the rows of h with begin <= message_id < end
InRange(h, begin, end) ==
    {r \in BagToSet(h) : RowSnowflake(r) >= begin /\ RowSnowflake(r) < end}

\* SELECT users.name, count(history.message_id) FROM history INNER JOIN users
\* ... WHERE message_id >= ? AND message_id < ? GROUP BY history.user_id:
\* user_id -> count, for the users that have a row in the range
YearlyCounts(h, u, begin, end) ==
    LET rows == InRange(h, begin, end)
    IN  [a \in {x \in DOMAIN u : \E r \in rows : r.user_id = x} |->
            Cardinality({r \in rows : r.user_id = a})]

\* the (name, count) rows of the groups, which come in user_id order, after
\* stats.sort_by_cached_key(|i| i.1) and stats.reverse()
RECURSIVE SortedStats(_, _)
SortedStats(counts, u) ==
    IF DOMAIN counts = {}
    THEN <<>>
    ELSE LET a == CHOOSE x \in DOMAIN counts :
                    \A y \in DOMAIN counts :
                        \/ counts[y] < counts[x]
                        \/ counts[y] = counts[x] /\ y <= x
         IN  <<[name |-> u[a].name, count |-> counts[a]]>> \o
             SortedStats([y \in DOMAIN counts \ {a} |-> counts[y]], u)

fetch_yearly_statistics(h, u, year_arg, now) ==
    LET range == get_yearly_stats_range(year_arg, now)
    IN  [year |-> range.year,
         total_days |-> range.days,
         stats |-> SortedStats(YearlyCounts(h, u, range.begin, range.end), u)]

\* the user's message ids of the range, ORDER BY history.message_id ASC
RECURSIVE Ascending(_)
Ascending(S) ==
    IF S = {}
    THEN <<>>
    ELSE LET x == CHOOSE y \in S : \A z \in S : y <= z
         IN  <<x>> \o Ascending(S \ {x})

\* while item.message_id >= date_cursor_0 { ... }
RECURSIVE WhileItem(_, _, _, _)
WhileItem(message_id, date_cursor_0, date_cursor_1, ret) ==
    IF message_id >= date_cursor_0
    THEN WhileItem(message_id, date_cursor_1,
                   date_cursor_1 + DaysIntoSnowflakes(1),
                   IF message_id > date_cursor_1
                   THEN Append(ret, DateOf(from_snowflakes(date_cursor_0)))
                   ELSE ret)
    ELSE [date_cursor_0 |-> date_cursor_0, date_cursor_1 |-> date_cursor_1,
          ret |-> ret]

\* for item in &history { ... }
RECURSIVE ForItems(_, _, _, _)
ForItems(items, date_cursor_0, date_cursor_1, ret) ==
    IF items = <<>>
    THEN ret
    ELSE LET w == WhileItem(Head(items), date_cursor_0, date_cursor_1, ret)
         IN  ForItems(Tail(items), w.date_cursor_0, w.date_cursor_1, w.ret)

\* fetch_user_details for a user that has a users row
fetch_user_details(h, u, user_id, now) ==
    LET range == get_yearly_stats_range(None, now)
        items == Ascending({RowSnowflake(r) :
                               r \in {x \in InRange(h, range.begin, range.end) :
                                         x.user_id = user_id}})
        yearly_count == Len(items)
        missing_count == range.days - yearly_count
    IN  [name |-> u[user_id].name,
         longest_streaks |-> u[user_id].longest_streaks,
         current_streaks |-> u[user_id].current_streaks,
         year |-> range.year,
         yearly_count |-> yearly_count,
         yearly_ratio |-> (yearly_count * 100) \div range.days,
         total_count |-> Cardinality({r \in BagToSet(h) : r.user_id = user_id}),
         missing_days |->
            IF missing_count < DETAIL_LIMIT_COUNT
            THEN [detailed |-> TRUE,
                  days |-> ForItems(items, range.begin,
                                    range.begin + DaysIntoSnowflakes(1), <<>>)]
            ELSE [detailed |-> FALSE, count |-> missing_count]]

\* get_current_streak_range: midnight of yesterday and of tomorrow in the
\* reference zone, as timestamps
GetCurrentStreakRangeToday(now) ==
    [begin |-> MidnightTs(DateOf(now.ts)),
     end |-> MidnightTs(DateOf(now.ts) + 1)]
get_current_streak_range(now) ==
    [begin |-> MidnightTs(Pred(DateOf(now.ts))),
     end |-> MidnightTs(DateOf(now.ts) + 1)]

\* fetch_streaks: the (name, streaks) rows of the query; ORDER BY ... DESC
\* leaves the order of rows with equal streaks to the database, so every
\* descending order is a possible result
fetch_streaks(u, longest, now) ==
    LET range == get_current_streak_range(now)
        selected == IF longest
                    THEN DOMAIN u
                    ELSE {a \in DOMAIN u : /\ u[a].last_date >= range.begin
                                           /\ u[a].last_date < range.end}
        streaks(a) == IF longest THEN u[a].longest_streaks
                      ELSE u[a].current_streaks
    IN  {[i \in 1..Cardinality(selected) |->
             [name |-> u[p[i]].name, streaks |-> streaks(p[i])]] :
            p \in {q \in Perms(selected) :
                      \A i, j \in 1..Cardinality(selected) :
                          i < j => streaks(q[i]) >= streaks(q[j])}}

\* the UTC offsets of the hosts the bot runs on: UTC and the reference zone
LocalOffsets == {0, 9 * 3600}
YearArgs == {None, Some(0), Some(1)}

\* the instants at which a command can arrive: not before the newest message
Nows ==
    {[ts |-> Timestamp(day, id), local |-> local, day |-> day] :
        day \in {d \in NewYearDays : d >= lastDay},
        id \in {k \in Ids : k = Max(lastId, 1) \/ k = lastId + 1},
        local \in LocalOffsets}

\* handle_year_command: the "year" subcommand is answered from
\* fetch_yearly_statistics
QueryYear ==
    /\ up = "up"
    /\ live = EmptyFn
    /\ reply = NoReply
    /\ \E year_arg \in YearArgs, now \in Nows :
        /\ reply' = [kind |-> "year", year_arg |-> year_arg,
                     now |-> [ts |-> now.ts, local |-> now.local],
                     result |-> fetch_yearly_statistics(history, users,
                                                        year_arg, now)]
        /\ lastDay' = now.day
    /\ UNCHANGED <<users, history, channel, lastId, up, live, bf, faults,
                   results, applied, lastAccept, init_message_id>>

\* handle_user_command: the "user" subcommand is answered from
\* fetch_user_details
QueryUser ==
    /\ up = "up"
    /\ live = EmptyFn
    /\ reply = NoReply
    /\ \E user_id \in DOMAIN users, now \in Nows :
        /\ reply' = [kind |-> "user", user_id |-> user_id,
                     now |-> [ts |-> now.ts, local |-> now.local],
                     result |-> fetch_user_details(history, users, user_id, now)]
        /\ lastDay' = now.day
    /\ UNCHANGED <<users, history, channel, lastId, up, live, bf, faults,
                   results, applied, lastAccept, init_message_id>>

\* handle_streaks_command: the "streaks" subcommand is answered from
\* fetch_streaks
QueryStreaks ==
    /\ up = "up"
    /\ live = EmptyFn
    /\ reply = NoReply
    /\ \E longest \in BOOLEAN, now \in Nows :
        /\ \E stats \in fetch_streaks(users, longest, now) :
            reply' = [kind |-> "streaks", longest |-> longest,
                      now |-> [ts |-> now.ts, local |-> now.local],
                      result |-> stats]
        /\ lastDay' = now.day
    /\ UNCHANGED <<users, history, channel, lastId, up, live, bf, faults,
                   results, applied, lastAccept, init_message_id>>

\* interaction.create_interaction_response: the answer is sent
Respond ==
    /\ reply # NoReply
    /\ reply' = NoReply
    /\ UNCHANGED <<users, history, channel, lastId, lastDay, up, live, bf,
                   faults, results, applied, lastAccept, init_message_id>>

\* ------------------------------------------------------------ round trip
\* the instants given to the codec, to the millisecond: DateTime values
\* whose second is secs and whose millisecond within the second is millis
Instants ==
    [secs : {Timestamp(day, id) : day \in Days \cup NewYearDays, id \in Ids},
     millis : 0..(MsPerSec - 1)]

\* DateTime::timestamp(): the whole seconds of an instant
timestamp(t) == t.secs

\* NaiveDateTime::from_timestamp(secs, 0)
from_timestamp(secs, nsecs) == [secs |-> secs, millis |-> nsecs]

\* t.into_snowflakes()
Encode ==
    /\ reply = NoReply
    /\ \E t \in Instants :
        reply' = [kind |-> "encoded", t |-> t,
                  snowflakes |-> into_snowflakes(timestamp(t))]
    /\ UNCHANGED <<users, history, channel, lastId, lastDay, up, live, bf,
                   faults, results, applied, lastAccept, init_message_id>>

\* from_snowflakes(&tz, snowflakes)
Decode ==
    /\ reply.kind = "encoded"
    /\ reply' = [kind |-> "decoded", t |-> reply.t,
                 snowflakes |-> reply.snowflakes,
                 decoded |-> from_timestamp(from_snowflakes(reply.snowflakes),
                                            0)]
    /\ UNCHANGED <<users, history, channel, lastId, lastDay, up, live, bf,
                   faults, results, applied, lastAccept, init_message_id>>

NextCodec ==
    \/ Encode
    \/ Decode

SpecCodec == Init /\ [][NextCodec]_vars

\* ------------------------------------------------------- specifications
\* incr_counter is called for a message of the channel that passes
\* check_message (from SubApplication::message or process_message_history),
\* one call at a time
Call(m) ==
    /\ live = EmptyFn
    /\ Len(results[m.id]) < MaxCalls
    /\ check_message(m)
    /\ live' = (m.id :> [m |-> m, pc |-> "message"])
    /\ UNCHANGED <<users, history, channel, lastId, lastDay, up, bf, faults,
                   results, applied, lastAccept,
                   init_message_id, reply>>

\* the ledger operations called one after the other, no failure
NextSeq ==
    \/ Post(TokenKinds)
    \/ UpdateMember
    \/ \E m \in channel : Call(m)
    \/ \E id \in Ids : LiveInsert(id)
    \/ \E id \in Ids : LiveSelect(id)
    \/ \E id \in Ids : LiveUpdate(id)

SpecSeq == Init /\ [][NextSeq]_vars

\* live ingestion and one backfill run interleave statement by statement,
\* no failure
Next ==
    \/ Start
    \/ Post(TokenKinds)
    \/ \E id \in Ids : LiveInsert(id)
    \/ \E id \in Ids : LiveSelect(id)
    \/ \E id \in Ids : LiveUpdate(id)
    \/ \E r \in Runs : BfCursor(r)
    \/ \E r \in Runs : BfFetch(r)
    \/ \E r \in Runs : BfExit(r)
    \/ \E r \in Runs : BfInsert(r)
    \/ \E r \in Runs : BfSelect(r)
    \/ \E r \in Runs : BfUpdate(r)
    \/ \E r \in Runs : BfPageEnd(r)

Spec == Init /\ [][Next]_vars

\* a message is created before the process has ever started
PostBacklog ==
    /\ up = "init"
    /\ Post(HumanKinds)

\* a backlog is posted while the process is off; backfill runs with crashes
\* and storage errors, no live ingestion
NextCrash ==
    \/ PostBacklog
    \/ Start
    \/ Resume
    \/ \E r \in Runs : BfCursor(r)
    \/ \E r \in Runs : BfFetch(r)
    \/ \E r \in Runs : BfExit(r)
    \/ \E r \in Runs : BfInsert(r)
    \/ \E r \in Runs : BfSelect(r)
    \/ \E r \in Runs : BfUpdate(r)
    \/ \E r \in Runs : BfPageEnd(r)
    \/ \E r \in Runs : BfFail(r)
    \/ Crash

SpecCrash == Init /\ [][NextCrash]_vars


\* the bot is up around the new year and handles one message at a time
PostNewYear ==
    /\ up = "up"
    /\ live = EmptyFn
    /\ reply = NoReply
    /\ PostOn(NewYearDays, TokenKinds)

NextYear ==
    \/ Start
    \/ PostNewYear
    \/ QueryYear
    \/ QueryUser
    \/ QueryStreaks
    \/ Respond
    \/ \E id \in Ids : LiveInsert(id)
    \/ \E id \in Ids : LiveSelect(id)
    \/ \E id \in Ids : LiveUpdate(id)

SpecYear == Init /\ [][NextYear]_vars


\* a backlog of messages of any kind, edited ones included, is there when the
\* process starts; check_message does not look at the author's id, so one
\* author writes them
PostBacklogAny ==
    /\ up = "init"
    /\ PostBy({1}, Days, MessageKinds)

\* a new message of any kind arrives while the bot is up and idle
PostLive ==
    /\ up = "up"
    /\ live = EmptyFn
    /\ \A r \in Runs : ~Paging(r)
    /\ PostBy({1}, Days, NewKinds)

\* backfill of a backlog, then live handling of any message, one at a time
NextLive ==
    \/ PostBacklogAny
    \/ Start
    \/ PostLive
    \/ \E id \in Ids : LiveReject(id)
    \/ \E id \in Ids : LiveDelete(id)
    \/ \E id \in Ids : LiveInsert(id)
    \/ \E id \in Ids : LiveSelect(id)
    \/ \E id \in Ids : LiveUpdate(id)
    \/ \E r \in Runs : BfCursor(r)
    \/ \E r \in Runs : BfFetch(r)
    \/ \E r \in Runs : BfExit(r)
    \/ \E r \in Runs : BfInsert(r)
    \/ \E r \in Runs : BfSelect(r)
    \/ \E r \in Runs : BfUpdate(r)
    \/ \E r \in Runs : BfPageEnd(r)

SpecLive == Init /\ [][NextLive]_vars


\* a backlog is posted while the process is off; backfill runs, a storage
\* error aborts a run, the session resumes; no crash, no live ingestion
NextFail ==
    \/ PostBacklog
    \/ Start
    \/ Resume
    \/ \E r \in Runs : BfCursor(r)
    \/ \E r \in Runs : BfFetch(r)
    \/ \E r \in Runs : BfExit(r)
    \/ \E r \in Runs : BfInsert(r)
    \/ \E r \in Runs : BfSelect(r)
    \/ \E r \in Runs : BfUpdate(r)
    \/ \E r \in Runs : BfPageEnd(r)
    \/ \E r \in Runs : BfFail(r)

SpecFail == Init /\ [][NextFail]_vars


\* valid messages of one author are created before the process has ever
\* started
PostBacklogToken ==
    /\ up = "init"
    /\ PostBy({1}, Days, TokenKinds)

\* a backlog is posted while the process is off; the gateway session
\* resumes at any time, also while a run is paging; no failure
NextResume ==
    \/ PostBacklogToken
    \/ Start
    \/ Resume
    \/ ResumeWhilePaging
    \/ \E r \in Runs : BfCursor(r)
    \/ \E r \in Runs : BfFetch(r)
    \/ \E r \in Runs : BfExit(r)
    \/ \E r \in Runs : BfInsert(r)
    \/ \E r \in Runs : BfSelect(r)
    \/ \E r \in Runs : BfUpdate(r)
    \/ \E r \in Runs : BfPageEnd(r)

SpecResume == Init /\ [][NextResume]_vars


\* a step of run r of retrieve_missing_messages
RunStep(r) ==
    \/ BfCursor(r)
    \/ BfFetch(r)
    \/ BfExit(r)
    \/ BfInsert(r)
    \/ BfSelect(r)
    \/ BfUpdate(r)
    \/ BfPageEnd(r)

\* the runtime keeps polling the task of a run, and the requests to the
\* source and the statements on the database return
SpecResumeFair == SpecResume /\ \A r \in Runs : WF_vars(RunStep(r))

\* the operator-supplied INIT_MESSAGE_ID values
Seeds == 0..MaxMsg

\* the process starts with any seed in its configuration
StartSeeded == \E seed \in Seeds : StartWith(seed)

\* a backlog is posted while the process is off; the process runs backfill,
\* is stopped and started again, each time with a seed of the operator
NextSeed ==
    \/ PostBacklogToken
    \/ StartSeeded
    \/ Crash
    \/ \E r \in Runs : BfCursor(r)
    \/ \E r \in Runs : BfFetch(r)
    \/ \E r \in Runs : BfExit(r)
    \/ \E r \in Runs : BfInsert(r)
    \/ \E r \in Runs : BfSelect(r)
    \/ \E r \in Runs : BfUpdate(r)
    \/ \E r \in Runs : BfPageEnd(r)

SpecSeed == Init /\ [][NextSeed]_vars


\* a valid message arrives while the bot is up and no handler is running
PostIdle ==
    /\ up = "up"
    /\ live = EmptyFn
    /\ Post(TokenKinds)

\* member events with changing names at any time, next to a live handler
\* that takes one message at a time
NextMember ==
    \/ Start
    \/ PostIdle
    \/ Rename
    \/ \E id \in Ids : LiveInsert(id)
    \/ \E id \in Ids : LiveSelect(id)
    \/ \E id \in Ids : LiveUpdate(id)

SpecMember == Init /\ [][NextMember]_vars


\* a token message arrives while the bot is up, whatever else is running
PostUp ==
    /\ up = "up"
    /\ PostBy({1}, Days, TokenKinds)

\* a backlog, then live handling next to the paging of the backlog, with
\* crashes and restarts of the process
NextRestart ==
    \/ PostBacklogToken
    \/ Start
    \/ PostUp
    \/ Crash
    \/ \E id \in Ids : LiveInsert(id)
    \/ \E id \in Ids : LiveSelect(id)
    \/ \E id \in Ids : LiveUpdate(id)
    \/ \E r \in Runs : BfCursor(r)
    \/ \E r \in Runs : BfFetch(r)
    \/ \E r \in Runs : BfExit(r)
    \/ \E r \in Runs : BfInsert(r)
    \/ \E r \in Runs : BfSelect(r)
    \/ \E r \in Runs : BfUpdate(r)
    \/ \E r \in Runs : BfPageEnd(r)

SpecRestart == Init /\ [][NextRestart]_vars

\* token messages of any actor wait in the channel before the bot starts
PostBacklogMembers ==
    /\ up = "init"
    /\ Post(TokenKinds)

\* main.rs: a backlog, then cache_ready with the membership loop and the
\* backfill
NextMain ==
    \/ PostBacklogMembers
    \/ StartMain
    \/ \E r \in Runs : SyncFetch(r)
    \/ \E r \in Runs : SyncUpsert(r)
    \/ \E r \in Runs : SyncPageEnd(r)
    \/ \E r \in Runs : BfCursor(r)
    \/ \E r \in Runs : BfFetch(r)
    \/ \E r \in Runs : BfExit(r)
    \/ \E r \in Runs : BfInsert(r)
    \/ \E r \in Runs : BfSelect(r)
    \/ \E r \in Runs : BfUpdate(r)
    \/ \E r \in Runs : BfPageEnd(r)

SpecMain == Init /\ [][NextMain]_vars

\* the gateway session resumes while no message handler is running
ResumeIdle ==
    /\ live = EmptyFn
    /\ Resume

\* backfill of a backlog, live handling of any message one at a time, with
\* deletion of the rejected ones, and further runs on resume
NextPaging ==
    \/ PostBacklogAny
    \/ Start
    \/ ResumeIdle
    \/ PostLive
    \/ \E id \in Ids : LiveReject(id)
    \/ \E id \in Ids : LiveDelete(id)
    \/ \E id \in Ids : LiveInsert(id)
    \/ \E id \in Ids : LiveSelect(id)
    \/ \E id \in Ids : LiveUpdate(id)
    \/ \E r \in Runs : BfCursor(r)
    \/ \E r \in Runs : BfFetch(r)
    \/ \E r \in Runs : BfExit(r)
    \/ \E r \in Runs : BfInsert(r)
    \/ \E r \in Runs : BfSelect(r)
    \/ \E r \in Runs : BfUpdate(r)
    \/ \E r \in Runs : BfPageEnd(r)

SpecPaging == Init /\ [][NextPaging]_vars

\* ------------------------------------------------------------ properties
\* an incr_counter call for message id is between its INSERT and its return
InFlight(id) ==
    \/ id \in DOMAIN live /\ live[id].pc \in {"select", "update"}
    \/ \E r \in Runs : /\ bf[r].pc \in {"select", "update"}
                       /\ bf[r].messages[bf[r].i].id = id

\* number of history rows with the given message_id
RowCount(h, id) ==
    LET rows == {r \in BagToSet(h) : r.message_id = id}
    IN  BagCardinality([r \in rows |-> h[r]])

\* the message ids of actor a for which UPDATE users has run
AppliedOf(a) ==
    {id \in Ids : applied[id] >= 1 /\
                  \E r \in BagToSet(history) : r.message_id = id /\ r.user_id = a}

\* C1: when incr_counter is called twice, one call after the other, for the
\* same message id of an actor who has a users row, the first call returns
\* Accepted and the second Duplicate, and the UPDATE of the actor's row
\* (count, current_streaks, longest_streaks, last_date) has run exactly once
\* for that id: the row's count is the number of ids accepted for the actor.
C1_Idempotent ==
    /\ \A id \in Ids :
        LET res == results[id]
        IN  /\ (Len(res) >= 1 /\ res[1].known) => res[1].out = "Accepted"
            /\ \A k \in 2..Len(res) : res[k].out = "Duplicate"
            /\ (Len(res) >= 1 /\ res[1].out = "Accepted") => applied[id] = 1
    /\ \A a \in DOMAIN users : users[a].count = Cardinality(AppliedOf(a))

C1_Witness ==
    \E id \in Ids :
        /\ Len(results[id]) = 2
        /\ results[id][1].known
        /\ results[id][1].out = "Accepted"
        /\ results[id][2].out = "Duplicate"
        /\ applied[id] = 1
        /\ \E a \in DOMAIN users : AppliedOf(a) = {id} /\ users[a].count = 1


\* C6: an incr_counter call that finds no users row for the message's author
\* (RejectedUnknownActor) has mutated no state: no history row carries the
\* message's id.
C6_UnknownActorNoMutation ==
    \A id \in Ids :
        (\E k \in 1..Len(results[id]) : results[id][k].out = "RejectedUnknownActor")
            => ~HasRow(history, id)

\* C7: when the UPDATE of an accepted event finds the actor's last_date unset,
\* it leaves current_streaks = 1 and longest_streaks = max(prior longest, 1).
C7_FirstEvent ==
    (lastAccept # NoAccept /\ lastAccept.before.last_date = 0)
        => /\ lastAccept.after.current_streaks = 1
           /\ lastAccept.after.longest_streaks =
                  Max(lastAccept.before.longest_streaks, 1)

\* C8: when an accepted event's date is exactly one day after the actor's
\* last_date, current_streaks becomes the prior current_streaks + 1 and
\* longest_streaks the maximum of the prior longest_streaks and the new
\* current_streaks; no accepted event lowers longest_streaks.
C8_ConsecutiveDay ==
    lastAccept # NoAccept =>
        /\ lastAccept.date = lastAccept.before.last_date + 86400
            => /\ lastAccept.after.current_streaks =
                      lastAccept.before.current_streaks + 1
               /\ lastAccept.after.longest_streaks =
                      Max(lastAccept.before.longest_streaks,
                          lastAccept.after.current_streaks)
        /\ lastAccept.after.longest_streaks >= lastAccept.before.longest_streaks
        /\ users[lastAccept.author].longest_streaks >= lastAccept.after.longest_streaks

C8_Witness ==
    /\ lastAccept # NoAccept
    /\ lastAccept.date = lastAccept.before.last_date + 86400
    /\ lastAccept.before.current_streaks = 2
    /\ lastAccept.after.current_streaks = 3
    /\ lastAccept.after.longest_streaks = 3

\* C9: when an accepted event's date is neither the actor's last_date nor the
\* day after it (a gap of two or more days, or an event older than
\* last_date), current_streaks becomes 1 and longest_streaks is unchanged.
C9_Reset ==
    (/\ lastAccept # NoAccept
     /\ lastAccept.before.last_date # 0
     /\ lastAccept.date # lastAccept.before.last_date
     /\ lastAccept.date # lastAccept.before.last_date + 86400)
        => /\ lastAccept.after.current_streaks = 1
           /\ lastAccept.after.longest_streaks = lastAccept.before.longest_streaks

\* an event older than last_date ends a streak of 2
C9_Witness ==
    /\ lastAccept # NoAccept
    /\ lastAccept.before.last_date # 0
    /\ lastAccept.date < lastAccept.before.last_date
    /\ lastAccept.before.current_streaks = 2
    /\ lastAccept.after.current_streaks = 1
    /\ lastAccept.after.longest_streaks = 2

\* C10: when an event with a new id is accepted on the same calendar date as
\* the actor's last_date, current_streaks becomes 1 whatever it was,
\* longest_streaks and last_date are unchanged and count grows by one.
C10_SameDay ==
    (lastAccept # NoAccept /\ lastAccept.date = lastAccept.before.last_date)
        => /\ lastAccept.after.current_streaks = 1
           /\ lastAccept.after.longest_streaks = lastAccept.before.longest_streaks
           /\ lastAccept.after.count = lastAccept.before.count + 1
           /\ lastAccept.after.last_date = lastAccept.before.last_date

C10_Witness ==
    /\ lastAccept # NoAccept
    /\ lastAccept.date = lastAccept.before.last_date
    /\ lastAccept.before.current_streaks = 2
    /\ lastAccept.after.current_streaks = 1
    /\ lastAccept.after.longest_streaks = 2
    /\ lastAccept.after.count = 3


\* C2: when the live message handler and a backfill run interleave in any
\* order over the same messages, no message id has more than one history row,
\* the UPDATE of the author's row runs at most once per message id and, once
\* no call for the id is in flight, exactly once for every recorded id of a
\* registered actor; each row's count is the number of ids recorded for it.
C2_OncePerEvent ==
    /\ \A id \in Ids :
        /\ RowCount(history, id) <= 1
        /\ applied[id] <= 1
    /\ \A r \in BagToSet(history) :
        (Registered(r.user_id) /\ ~InFlight(r.message_id))
            => applied[r.message_id] = 1
    /\ \A a \in DOMAIN users : users[a].count = Cardinality(AppliedOf(a))

\* one message id went through both paths: accepted by one, duplicate by the other
C2_Witness ==
    \E id \in Ids :
        /\ Len(results[id]) = 2
        /\ {results[id][1].via, results[id][2].via} = {"live", "backfill"}
        /\ {results[id][1].out, results[id][2].out} = {"Accepted", "Duplicate"}
        /\ RowCount(history, id) = 1
        /\ applied[id] = 1
        /\ \E a \in DOMAIN users : id \in AppliedOf(a) /\ users[a].count = 1

\* the row of a registered actor after incr_counter has run alone, as a whole,
\* for message m
RecordRow(row, m) ==
    UpdateUser(row, NewStreaks(row, m), MidnightTs(DateOf(m.timestamp)))

Stats(row) ==
    <<row.count, row.current_streaks, row.longest_streaks, row.last_date>>

\* C5: when two incr_counter calls for two different message ids of one
\* participant have both returned Accepted, the participant's count,
\* current_streaks, longest_streaks and last_date are those of running the
\* two calls one after the other in one of the two orders.
C5_NoLostUpdate ==
    \A a \in DOMAIN users :
        \A m1, m2 \in channel :
            (/\ m1.id < m2.id
             /\ AppliedOf(a) = {m1.id, m2.id}
             /\ \A id \in Ids : ~InFlight(id))
                => Stats(users[a]) \in
                      {Stats(RecordRow(RecordRow(DefaultUser("nick"), m1), m2)),
                       Stats(RecordRow(RecordRow(DefaultUser("nick"), m2), m1))}


\* incr_counter run alone and to its end for message m on the tables t
RecordWhole(t, m) ==
    LET r == InsertHistory(t.history, HistoryRow(m))
    IN  IF ~r.ok
        THEN t
        ELSE IF m.author \notin DOMAIN t.users
             THEN [users |-> t.users, history |-> r.history]
             ELSE [users |-> [t.users EXCEPT ![m.author] = RecordRow(@, m)],
                   history |-> r.history]

RECURSIVE RecordAll(_, _)
RecordAll(t, seq) ==
    IF seq = <<>> THEN t ELSE RecordAll(RecordWhole(t, Head(seq)), Tail(seq))

\* the tables one backfill run leaves when nothing interrupts it: every
\* message after the seed that passes check_message, recorded in id order
Uninterrupted(ch, reg) ==
    RecordAll([users |-> InitialUsers(reg), history |-> EmptyBag],
              SortById({m \in ch : m.id > InitMessageId /\ check_message(m)}))

\* C3: with a fixed backlog and no live ingestion, when a backfill run ends
\* (also a run that follows a crash or an aborted run) the tables are those
\* one uninterrupted run leaves.
C3_Resumable ==
    bf[1].pc = "done" =>
        [users |-> users, history |-> history] = Uninterrupted(channel, DOMAIN users)

\* C4: in every state in which no incr_counter call is in flight, also after a
\* crash or a storage error inside incr_counter, every history row of a
\* registered actor has had its UPDATE users applied.
C4_Atomic ==
    \A r \in BagToSet(history) :
        (Registered(r.user_id) /\ ~InFlight(r.message_id))
            => applied[r.message_id] >= 1

\* the history rows of actor a, and the days on which it has one
RowsOf(h, a) == {r \in BagToSet(h) : r.user_id = a}
DaysOf(h, a) == {DateOf(r.date) : r \in RowsOf(h, a)}

\* length of the run of consecutive days of D that ends on day d
RECURSIVE RunEnding(_, _)
RunEnding(D, d) == IF d \notin D THEN 0 ELSE 1 + RunEnding(D, d - 1)

LongestRun(D) == SetMax({0} \cup {RunEnding(D, d) : d \in D})

\* C11: for a registered participant whose valid events, at most one per
\* calendar day, are recorded in ascending date order from an empty ledger,
\* after every record current_streaks is the length of the run of consecutive
\* days that ends on the last event's date and longest_streaks is the longest
\* run so far; so events on January 1, 2 and 4 give (1,1), (2,2), (1,2).
C11_RunLengths ==
    \A a \in DOMAIN users :
        (/\ live = EmptyFn
         /\ RowsOf(history, a) # {}
         /\ Cardinality(RowsOf(history, a)) = Cardinality(DaysOf(history, a)))
            => /\ users[a].current_streaks =
                      RunEnding(DaysOf(history, a), SetMax(DaysOf(history, a)))
               /\ users[a].longest_streaks = LongestRun(DaysOf(history, a))

\* April 1 in the model's calendar
AprilFirst == 2

\* the messages the program holds: in the channel, in a handler task, in a
\* fetched page
Held ==
    channel \cup {live[id].m : id \in DOMAIN live}
            \cup UNION {{bf[r].messages[k] : k \in 1..Len(bf[r].messages)} :
                        r \in {q \in Runs : bf[q].pc \in {"page", "select", "update"}}}

Accepts(m) ==
    /\ ~m.bot
    /\ ~m.edited
    /\ \/ DateOf(m.timestamp) = AprilFirst
       \/ m.content = EUEOEO

\* C12: check_message accepts a message if and only if its author is not a
\* bot, it has not been edited, and its date in UTC+9 is April 1 or its
\* content is the token; the live handler deletes exactly the messages that
\* fail this and calls incr_counter for the others, and backfill calls
\* incr_counter only for messages that pass it.
C12_Validator ==
    /\ \A m \in Held : check_message(m) <=> Accepts(m)
    /\ \A id \in DOMAIN live :
        /\ live[id].pc = "delete" => ~Accepts(live[id].m)
        /\ live[id].pc \in {"select", "update"} => Accepts(live[id].m)
    /\ \A r \in Runs :
        bf[r].pc \in {"select", "update"} => Accepts(bf[r].messages[bf[r].i])
    /\ \A m \in channel : results[m.id] # <<>> => Accepts(m)

\* on April 1 a message with another content has been recorded, a message of
\* a bot is being deleted, and an edited message of the backlog was skipped
C12_Witness ==
    /\ \E m \in channel :
        /\ DateOf(m.timestamp) = AprilFirst
        /\ m.content # EUEOEO
        /\ results[m.id] # <<>>
    /\ \E id \in DOMAIN live :
        /\ live[id].pc = "delete"
        /\ live[id].m.bot
        /\ DateOf(live[id].m.timestamp) = AprilFirst
    /\ \E m \in channel :
        /\ m.edited
        /\ DateOf(m.timestamp) = AprilFirst
        /\ results[m.id] = <<>>
        /\ bf[1].pc = "done"

\* C13: in every state in which no incr_counter call is in flight, after any
\* sequence of update_member and incr_counter calls (calls for a message whose
\* author has no users row yet included), each users row's count is the number
\* of history rows with that user_id.
C13_CountIsHistory ==
    live = EmptyFn =>
        \A a \in DOMAIN users :
            users[a].count = Cardinality(RowsOf(history, a))

\* the date column of the history row of message id
DateOfRow(h, id) == (CHOOSE r \in BagToSet(h) : r.message_id = id).date

\* C14: in every state in which no incr_counter call is in flight, a
\* participant's last_date is the date of its counted event with the highest
\* message id, in whatever order the events were processed; it is unset
\* (zero) while the participant has no counted event.
C14_LastDateIsNewest ==
    (\A id \in Ids : ~InFlight(id)) =>
        \A a \in DOMAIN users :
            IF AppliedOf(a) = {}
            THEN users[a].last_date = 0
            ELSE users[a].last_date = DateOfRow(history, SetMax(AppliedOf(a)))

\* message m is durably recorded: its history row and the UPDATE of its
\* author's row are both stored
Durable(m) == HasRow(history, m.id) /\ applied[m.id] >= 1

\* C15: when a storage error inside incr_counter has aborted a backfill page,
\* the cursor a later run starts from is not past any valid message of a
\* registered author that is not durably recorded: every such message at or
\* before the cursor of a run has its history row and its users update.
C15_CursorNotPastUnrecorded ==
    \A r \in Runs :
        bf[r].pc \in {"loop", "page", "select", "update"} =>
            \A m \in channel :
                (/\ m.id > init_message_id
                 /\ m.id <= bf[r].prev_message_id
                 /\ check_message(m)
                 /\ Registered(m.author))
                    => Durable(m)

\* run r is inside the while loop of retrieve_missing_messages
InLoop(r) == bf[r].pc \in {"loop", "page", "select", "update"}

\* C16: at most one run of retrieve_missing_messages is in its paging loop at
\* any time: a resume event that arrives while an earlier run is still paging
\* does not start a second loop next to it.
C16_SinglePagingLoop ==
    Cardinality({r \in Runs : InLoop(r)}) <= 1

\* the highest message_id among the history rows, 0 for an empty table
LatestEventId(h) ==
    SetMax({0} \cup {r.message_id : r \in BagToSet(h)})

\* C17: the cursor a backfill run starts from is the largest of the highest
\* message id in history and the operator's seed (no other cursor is stored);
\* so when the seed is above the highest recorded id the run starts from the
\* seed.
C17_StartCursorIsLargest ==
    \A r \in Runs :
        bf[r].pc = "cursor" =>
            StartCursor(history, init_message_id) =
                Max(LatestEventId(history), init_message_id)

\* C18: update_member(user_id, name) creates the users row if there is none
\* and otherwise replaces only its name (the last name wins): count,
\* current_streaks, longest_streaks and last_date of an existing row, and
\* every other row, stay as they are, and a second call with the same
\* arguments changes nothing. So the row of the last accepted event's author
\* still has the statistics that event left, whatever renames followed.
C18_UpsertKeepsStats ==
    /\ \A a \in Actors, name \in MemberNames :
        LET v == update_member(users, a, name)
        IN  /\ DOMAIN v = DOMAIN users \cup {a}
            /\ v[a].name = name
            /\ a \in DOMAIN users => v[a] = [users[a] EXCEPT !.name = name]
            /\ a \notin DOMAIN users => Stats(v[a]) = <<0, 0, 0, 0>>
            /\ \A b \in DOMAIN users \ {a} : v[b] = users[b]
            /\ update_member(v, a, name) = v
    /\ (lastAccept # NoAccept /\ live = EmptyFn) =>
           Stats(users[lastAccept.author]) = Stats(lastAccept.after)

\* a participant with counted events was renamed after its last event
C18_Witness ==
    /\ lastAccept # NoAccept
    /\ live = EmptyFn
    /\ lastAccept.after.name = "nick"
    /\ lastAccept.after.count = 2
    /\ users[lastAccept.author].name = "user"
    /\ users[lastAccept.author].count = 2

\* the dates of the sequence days
DatesIn(days) == {days[i] : i \in DOMAIN days}

\* the days from the year's start to the day of now on which actor a has no
\* history row
DaysWithoutRecord(h, a, year, now) ==
    {d \in YearStart(year)..DateOf(now.ts) : d \notin DaysOf(h, a)}

\* C19: when the "user" answer lists the missing days, the list is, without
\* repetition, exactly the days from the start of the year to the day of the
\* request on which the participant has no record -- the days after its last
\* record, and all of them when it has no record, included.
C19_MissingDaysExact ==
    (reply.kind = "user" /\ reply.result.missing_days.detailed) =>
        LET days == reply.result.missing_days.days
            expected == DaysWithoutRecord(history, reply.user_id,
                                          reply.result.year, reply.now)
        IN  /\ DatesIn(days) = expected
            /\ Len(days) = Cardinality(expected)

\* the number of history rows of actor a whose date is one of first..last
CountedOn(h, a, first, last) ==
    Cardinality({r \in RowsOf(h, a) :
                    first <= DateOf(r.date) /\ DateOf(r.date) <= last})

RecentlyRecorded(u, now) ==
    {a \in DOMAIN u : DateOf(u[a].last_date) \in
                        {DateOf(now.ts) - 1, DateOf(now.ts)}}

\* C21: the "streaks" answer for the current streaks holds one row, name and
\* current_streaks, of every participant whose last_date is yesterday or
\* today in the reference zone and of no other participant, in descending
\* order of current_streaks.
C21_CurrentRanking ==
    (reply.kind = "streaks" /\ ~reply.longest) =>
        LET listed == RecentlyRecorded(users, reply.now)
            n == Cardinality(listed)
        IN  /\ Len(reply.result) = n
            /\ \E p \in Perms(listed) :
                \A i \in 1..n :
                    reply.result[i] =
                        [name |-> users[p[i]].name,
                         streaks |-> users[p[i]].current_streaks]
            /\ \A i, j \in 1..n :
                i < j => reply.result[i].streaks >= reply.result[j].streaks

\* one participant was last recorded the day before the request and is
\* listed; another was last recorded two days before it and is not
C21_Witness ==
    /\ reply.kind = "streaks"
    /\ ~reply.longest
    /\ Len(reply.result) = 1
    /\ \E a, b \in DOMAIN users :
        /\ DateOf(users[a].last_date) = DateOf(reply.now.ts) - 1
        /\ DateOf(users[b].last_date) = DateOf(reply.now.ts) - 2

\* C22: decoding the encoding of an instant gives the instant back, to the
\* millisecond.
C22_RoundTrip ==
    reply.kind = "decoded" => reply.decoded = reply.t

\* the ids of the messages of a page
IdsOf(messages) == {messages[k].id : k \in 1..Len(messages)}

\* C23: when a run goes from a page back to the head of its loop, the page
\* was a full one and the cursor is the largest id of the page, rejected
\* messages included, so the next request returns only messages that follow
\* every message of the page.
C23_FullPageCursor ==
    [][\A r \in Runs :
          (bf[r].pc = "page" /\ bf'[r].pc = "loop") =>
              /\ Len(bf[r].messages) = MESSAGES_LIMIT
              /\ bf'[r].prev_message_id = SetMax(IdsOf(bf[r].messages))
              /\ \A m \in Page(channel', bf'[r].prev_message_id) :
                    \A id \in IdsOf(bf[r].messages) : m.id > id]_vars

\* a run is at the head of its loop with the cursor on a message that
\* check_message rejects: the cursor of a full page that ended with it
C23_Witness ==
    \E r \in Runs :
        /\ bf[r].pc = "loop"
        /\ \E m \in channel :
            /\ m.id = bf[r].prev_message_id
            /\ ~check_message(m)

\* C24: a run leaves a page for the head of its loop only when the page held
\* exactly MESSAGES_LIMIT messages, and ends after any shorter page, the
\* empty one included; it requests a page only while its cursor is below its
\* target, and the target is the channel's last message id read when the
\* run began and does not change during the run.
C24_StopsAtShortPage ==
    [][\A r \in Runs :
          /\ (bf[r].pc = "page" /\ bf'[r].pc = "loop") =>
                Len(bf[r].messages) = MESSAGES_LIMIT
          /\ (/\ bf[r].pc = "page"
              /\ Len(bf[r].messages) < MESSAGES_LIMIT
              /\ ValidFrom(bf[r]) = {}
              /\ bf'[r] # bf[r]) => ~Paging(r)'
          /\ (bf[r].pc = "loop" /\ bf'[r].pc = "page") =>
                bf[r].prev_message_id < bf[r].last_message_id
          /\ (bf[r].pc # "cursor" /\ bf'[r].pc = "cursor") =>
                bf'[r].last_message_id = lastId
          /\ (Paging(r) /\ Paging(r)' /\ bf'[r].pc # "cursor") =>
                bf'[r].last_message_id = bf[r].last_message_id]_vars

\* a run has requested a page below its target and the source returned an
\* empty page
C24_Witness ==
    \E r \in Runs :
        /\ bf[r].pc = "page"
        /\ bf[r].messages = <<>>
        /\ bf[r].prev_message_id < bf[r].last_message_id

\* C25: every incr_counter call of a run is on a message that passes
\* check_message and whose id is above the cursor and above every id the run
\* has gone over in the page, and no message of the page that passes
\* check_message and has a smaller id is still to come: the calls of a run
\* are in strictly ascending order of id, whatever order the source returned
\* the page in.
C25_AscendingRecord ==
    [][\A r \in Runs :
          (/\ bf[r].pc = "page"
           /\ bf'[r].pc \in {"page", "select"}
           /\ bf'[r] # bf[r]) =>
              LET j == IF bf'[r].pc = "select" THEN bf'[r].i
                       ELSE bf'[r].i - 1
                  m == bf[r].messages[j]
              IN  /\ check_message(m)
                  /\ m.id > bf[r].prev_message_id
                  /\ m.id > bf[r].most_new_id
                  /\ \A k \in ValidFrom(bf[r]) :
                        k # j => bf[r].messages[k].id > m.id]_vars

\* incr_counter is called on the second message of a page after it was
\* called on the first
C25_Witness ==
    \E r \in Runs :
        /\ bf[r].pc = "select"
        /\ bf[r].i = 2
        /\ check_message(bf[r].messages[1])
        /\ HasRow(history, bf[r].messages[1].id)

\* the incr_counter call of a run on message id returns out in this step
ReturnsNow(id, out) ==
    /\ Len(results'[id]) = Len(results[id]) + 1
    /\ results'[id][Len(results'[id])].out = out
    /\ results'[id][Len(results'[id])].via = "backfill"

\* the position of the page at which the step of run r calls, or goes on
\* with, incr_counter
CallAt(r) ==
    IF bf[r].pc = "page"
    THEN CHOOSE k \in ValidFrom(bf[r]) : \A l \in ValidFrom(bf[r]) : k <= l
    ELSE bf[r].i

\* C26: when incr_counter returns Duplicate or RejectedUnknownActor inside a
\* page, the run stays in the page and goes on with the next message, the
\* message counts for the cursor, and when the page is left every message of
\* it that passes check_message has a history row and a new cursor is at or
\* past every message of the page.
C26_NotFatal ==
    [][\A r \in Runs :
          /\ (/\ \/ bf[r].pc = "page" /\ ValidFrom(bf[r]) # {}
                 \/ bf[r].pc = "select"
              /\ bf'[r] # bf[r]
              /\ \/ ReturnsNow(bf[r].messages[CallAt(r)].id, "Duplicate")
                 \/ ReturnsNow(bf[r].messages[CallAt(r)].id,
                               "RejectedUnknownActor")) =>
                /\ bf'[r].pc = "page"
                /\ bf'[r].messages = bf[r].messages
                /\ bf'[r].i = CallAt(r) + 1
                /\ bf'[r].most_new_id >= bf[r].messages[CallAt(r)].id
          /\ (bf[r].pc = "page" /\ bf'[r].pc \in {"loop", "done"}) =>
                /\ \A k \in 1..Len(bf[r].messages) :
                      check_message(bf[r].messages[k]) =>
                          HasRow(history, bf[r].messages[k].id)
                /\ bf'[r].pc = "loop" =>
                      \A k \in 1..Len(bf[r].messages) :
                          bf'[r].prev_message_id >= bf[r].messages[k].id]_vars

\* the first message of a page was turned down as Duplicate and the run is
\* in incr_counter for the second one, about to update its author's row
C26_Witness ==
    \E r \in Runs :
        /\ bf[r].pc = "update"
        /\ bf[r].i = 2
        /\ LET returned == results[bf[r].messages[1].id]
           IN  /\ returned # <<>>
               /\ returned[Len(returned)].via = "backfill"
               /\ returned[Len(returned)].out = "Duplicate"

\* C27: when a run of retrieve_missing_messages comes to its end without an
\* error, every message of the channel that passes check_message, whose
\* author is registered and whose id is above the seed and at most the run's
\* target has a history row -- whatever live handling, crashes and restarts
\* came before.
C27_BackfillComplete ==
    [][\A r \in Runs :
          (Paging(r) /\ bf'[r].pc = "done" /\ bf[r].pc # "cursor") =>
              \A m \in channel :
                  (/\ check_message(m)
                   /\ Registered(m.author)
                   /\ m.id > init_message_id
                   /\ m.id <= bf[r].last_message_id) =>
                      HasRow(history', m.id)]_vars

\* the messages of the channel that follow id after
After(ch, after) == {m \in ch : m.id > after}

\* C28: the first run of a process that has not crashed before starts from
\* the seed, the history being empty; when it comes to its end every message
\* that passes check_message, whose author is registered and whose id is
\* above the seed and at most the run's target has a history row.
C28_RunCoversBacklog ==
    [][(/\ faults = 0
        /\ Paging(1)
        /\ bf[1].pc # "cursor"
        /\ bf'[1].pc = "done") =>
            \A m \in After(channel, init_message_id) :
                (/\ check_message(m)
                 /\ Registered(m.author)
                 /\ m.id <= bf[1].last_message_id) =>
                    HasRow(history', m.id)]_vars

\* the run has ended after a backlog of exactly MESSAGES_LIMIT messages
\* above the seed, all of a registered author, and each has its row
C28_Witness ==
    /\ faults = 0
    /\ bf[1].pc = "done"
    /\ Cardinality(After(channel, init_message_id)) = MESSAGES_LIMIT
    /\ \A m \in After(channel, init_message_id) :
        /\ Registered(m.author)
        /\ HasRow(history, m.id)
        /\ applied[m.id] = 1

\* C29: a run that is in retrieve_missing_messages comes to its end, and
\* whenever it goes from a page back to the head of its loop its cursor has
\* grown.
C29_RunTerminates ==
    /\ \A r \in Runs : Paging(r) ~> ~Paging(r)
    /\ [][\A r \in Runs :
             (bf[r].pc = "page" /\ bf'[r].pc = "loop") =>
                 bf'[r].prev_message_id > bf[r].prev_message_id]_vars

\* two runs over a backlog of at least a full page have ended and every
\* message has its row
C29_Witness ==
    \E r \in Runs :
        /\ bf[r].pc = "done"
        /\ Cardinality(channel) >= MESSAGES_LIMIT
        /\ \A m \in channel : HasRow(history, m.id)
        /\ \E q \in Runs : q # r /\ bf[q].pc = "done"

\* C30: while the cache_ready task of main.rs is in
\* retrieve_missing_messages every member of the guild has a users row; the
\* membership loop is left only after an empty page, and after any other
\* page the next one is asked for after the largest user id of the page.
C30_SyncBeforeBackfill ==
    /\ [](\A r \in Runs : Paging(r) => GuildMembers \subseteq DOMAIN users)
    /\ [][\A r \in Runs :
             /\ (bf[r].pc = "upsert" /\ bf'[r].pc \in {"cursor", "done"}) =>
                    bf[r].members = <<>>
             /\ (bf[r].pc = "upsert" /\ bf'[r].pc = "members") =>
                    /\ bf[r].members # <<>>
                    /\ \A k \in 1..Len(bf[r].members) :
                          bf'[r].user_id >= bf[r].members[k]
                    /\ \E k \in 1..Len(bf[r].members) :
                          bf'[r].user_id = bf[r].members[k]]_vars

\* the backfill is recording a message of a member, and every member has the
\* row and the name the membership loop gave it
C30_Witness ==
    \E r \in Runs :
        /\ bf[r].pc = "update"
        /\ \A a \in GuildMembers :
            /\ Registered(a)
            /\ users[a].name = MemberName(a)

====
